---- MODULE Spec2Model ----
(***************************************************************************)
(* withMemorized (packages/memorize/src/internal/memorize.ts): a wrapper   *)
(* that caches the results of an asynchronous function under keys chosen   *)
(* by the caller, with an optional time-to-live and an optional maximum    *)
(* cache size, and with importMemory / exportMemory / clearMemory.          *)
(*                                                                         *)
(* Two wrapper instances around the same function are modelled.  The       *)
(* `memory` closure variable of a wrapper is a reference to a JavaScript   *)
(* object; objects live in `heap`, so that a reference handed out by       *)
(* exportMemory and taken in by importMemory aliases the same object.      *)
(* An invocation of the memorized function is two steps: the synchronous   *)
(* part up to `await fn(...args)`, and the continuation after the await.   *)
(***************************************************************************)
EXTENDS Integers, Sequences, FiniteSets, TLC

\* ---------------------------------------------------------------- bounds
MaxTime == 2        \* Date.now() ranges over 0..MaxTime
MaxLog == 2         \* an unbounded cacheOrder holds at most MaxLog keys
MaxInflight == 2    \* at most MaxInflight invocations await fn at once

\* ------------------------------------------------------------- constants
Absent == -1                \* an option that was not supplied (undefined)
Infinity == -2              \* the expiration of an entry that never expires
Undefined == "undefined"    \* the JavaScript value undefined
NoKey == ""                 \* an operation that takes no key
NoValue == "-"              \* an operation that returns no value
Proto == "__proto__"         \* the key that names the prototype of an object
Wrappers == {"A", "B"}
Keys == {"k1", "k2", Proto}
Results == {"v1", "v2", Undefined}      \* what fn may resolve to
ObjIds == 1..Cardinality(Wrappers)
TtlOptions == {Absent, 0, 1, 2}
SizeOptions == {Absent, 0, 1, 2}

VARIABLES
    instances,      \* the wrappers withMemorized has constructed
    callerKeys,     \* the keys the caller passes to the memorized function
    ttl,            \* [Wrappers -> TtlOptions]: options.ttl
    maxCacheSize,   \* [Wrappers -> SizeOptions]: options.maxCacheSize
    memory,         \* [Wrappers -> ObjIds]: the object `memory` refers to
    cacheOrder,     \* [Wrappers -> Seq(Keys)]
    heap,           \* [ObjIds -> object], see EmptyObject
    now,            \* Date.now()
    pending,        \* the invocations suspended at `await fn(...args)`
    exported,       \* what the caller just got from exportMemory, if anything
    last,           \* the last operation step (history)
    trail           \* the keys stored by wrapper A, see Followed (history)

vars == <<instances, callerKeys, ttl, maxCacheSize, memory, cacheOrder, heap, now,
          pending, exported, last, trail>>

config == <<instances, callerKeys, ttl, maxCacheSize>>

\* ------------------------------------------------------------ JavaScript
\* A number used as a condition: undefined and 0 are falsy.
Truthy(n) == n # Absent /\ n # 0

\* (mutant) e >= t
GreaterThanOrEqual(e, t) == IF e = Infinity THEN TRUE ELSE e >= t

\* e > t on numbers, where e may be Infinity.
GreaterThan(e, t) == IF e = Infinity THEN TRUE ELSE e > t

\* {}: a plain object.  `own` holds its own properties, key |-> entry; `proto`
\* is empty while its prototype is Object.prototype, and holds the entry that
\* an assignment to obj["__proto__"] made its prototype.
EmptyObject == [own |-> [k \in {} |-> NoValue], proto |-> {}]

\* obj[k] = e, for an entry e (an object): an own property, except that the
\* key "__proto__" calls the setter of Object.prototype, which replaces the
\* prototype of obj and creates no own property.
SetProperty(obj, k, e) ==
    IF k = Proto
    THEN [obj EXCEPT !.proto = {e}]
    ELSE [obj EXCEPT !.own = [x \in (DOMAIN obj.own) \cup {k} |->
                                 IF x = k THEN e ELSE obj.own[x]]]

\* delete obj[k]: removes an own property; obj has no own property "__proto__",
\* so that its prototype stays.
DeleteProperty(obj, k) ==
    IF k = Proto
    THEN obj
    ELSE [obj EXCEPT !.own = [x \in (DOMAIN obj.own) \ {k} |-> obj.own[x]]]

\* obj[k]: the entry the lookup finds, as a set of at most one entry.  The
\* key "__proto__" reads the prototype; Object.prototype is no entry (it has no
\* expiration, so that getCachedResult passes it over).  No key of Keys names a
\* property that obj inherits.
GetProperty(obj, k) ==
    IF k = Proto THEN obj.proto
    ELSE IF k \in DOMAIN obj.own THEN {obj.own[k]}
    ELSE {}

\* the keys under which a lookup in obj finds an entry
Held(obj) == {k \in Keys : GetProperty(obj, k) # {}}

\* the entry a lookup in obj finds under k, for k in Held(obj)
EntryOf(obj, k) == CHOOSE e \in GetProperty(obj, k) : TRUE

\* array.shift(): the array without its first element
Shift(s) == SubSeq(s, 2, Len(s))

\* the sequence s without its i-th element
RemoveAt(s, i) == SubSeq(s, 1, i - 1) \o SubSeq(s, i + 1, Len(s))

\* --------------------------------------------------------------- objects
Refs(mem) == {mem[w] : w \in DOMAIN mem}

\* Objects no reference reaches are collected: their slot holds {} again.
Collect(h, refs) == [o \in ObjIds |-> IF o \in refs THEN h[o] ELSE EmptyObject]

\* the slot of a newly created object, given the references that stay live
NewObj(refs) == CHOOSE o \in ObjIds \ refs : \A p \in ObjIds \ refs : o <= p

\* the Cache of wrapper w
Cache(w) == heap[memory[w]]

\* ------------------------------------------------------------- the cache
\* (mutant) the expiration test is inverted: only stale entries are served
getCachedResultStale(w, key) ==
    LET cachedResult == GetProperty(Cache(w), key)
    IN  IF \E e \in cachedResult : ~GreaterThan(e.expiration, now)
        THEN EntryOf(Cache(w), key).value
        ELSE Undefined

\* getCachedResult(key) of wrapper w
getCachedResult(w, key) ==
    LET cachedResult == GetProperty(Cache(w), key)
    IN  IF \E e \in cachedResult : GreaterThan(e.expiration, now)
        THEN EntryOf(Cache(w), key).value
        ELSE Undefined

\* the expiration storeInCache gives a new entry
Expiration(w) == IF Truthy(ttl[w]) THEN now + ttl[w] ELSE Infinity

\* (mutant) the front is removed only when the order exceeds maxCacheSize by two
ExceedsByTwo(w, order) == Truthy(maxCacheSize[w]) /\ Len(order) > maxCacheSize[w] + 1

\* storeInCache: whether the front of the order is removed, given the order
\* after the push
Exceeds(w, order) == Truthy(maxCacheSize[w]) /\ Len(order) > maxCacheSize[w]

\* cacheOrder of w after storeInCache(key, result)
StoredOrder(w, key) ==
    LET pushed == Append(cacheOrder[w], key)
    IN  IF Exceeds(w, pushed) THEN Shift(pushed) ELSE pushed

\* the object `memory` of w refers to, after storeInCache(key, result)
StoredObject(w, key, result) ==
    LET pushed == Append(cacheOrder[w], key)
        set == SetProperty(Cache(w), key,
                           [value |-> result, expiration |-> Expiration(w)])
    IN  IF Exceeds(w, pushed) THEN DeleteProperty(set, Head(pushed)) ELSE set

\* ---------------------------------------------------------------- history
\* The record of an operation step. `after` is, for an invocation, the kind of
\* the operation step before it; for the continuation of an invocation, the
\* clearMemory or importMemory of its wrapper that came just before it; for a
\* clearMemory, the store of its wrapper that came just before it.
Op(op, w, key, value) ==
    [op |-> op, w |-> w, key |-> key, value |-> value, at |-> now,
     after |-> IF op \in {"hit", "call"} THEN last.op
               ELSE IF op = "return" /\ last.op \in {"clear", "import"} /\ last.w = w
                    THEN last.op
               ELSE IF op = "clear" /\ last.op = "return" /\ last.w = w
                    THEN last.op
                    ELSE ""]

Tainted == <<NoKey>>

\* trail after an invocation of wrapper w has stored key: the keys stored so
\* far, as long as wrapper A has done nothing but successive invocations, one
\* at a time, each storing a key not stored before.
Followed(w, key) ==
    IF trail # Tainted /\ w = "A" /\ \A i \in 1..Len(trail) : trail[i] # key
    THEN Append(trail, key)
    ELSE Tainted

\* ------------------------------------------------------------------ Init
\* withMemorized(fn, options), once for each wrapper of ws
withMemorized(ws) ==
    /\ instances = ws
    /\ ttl \in [Wrappers -> TtlOptions]
    /\ maxCacheSize \in [Wrappers -> SizeOptions]
    /\ \A w \in Wrappers \ ws : ttl[w] = Absent /\ maxCacheSize[w] = Absent
    /\ memory = [w \in Wrappers |-> IF w = "A" THEN 1 ELSE 2]
    /\ cacheOrder = [w \in Wrappers |-> <<>>]
    /\ heap = [o \in ObjIds |-> EmptyObject]
    /\ now = 0
    /\ pending = <<>>
    /\ exported = {}
    /\ last = [op |-> "init", w |-> "A", key |-> NoKey, value |-> NoValue,
               at |-> 0, after |-> ""]
    /\ trail = <<>>

\* the pairs of keys a caller uses: two ordinary keys, or an ordinary key and
\* the key that names the prototype
KeyPairs == {{"k1", "k2"}, {"k1", Proto}}

Init == withMemorized({"A"}) /\ callerKeys \in KeyPairs

\* --------------------------------------------------------------- actions
\* the invocations of wrapper w that await fn
Inflight(w) == Cardinality({i \in 1..Len(pending) : pending[i].w = w})

\* (mutant) a valid entry is served whatever its value
memorizedFunctionByEntry(w, key) ==
    LET cachedValue == getCachedResult(w, key)
        valid == \E e \in GetProperty(Cache(w), key) :
                    GreaterThan(e.expiration, now)
    IN  /\ IF valid
           THEN /\ last' = Op("hit", w, key, cachedValue)
                /\ UNCHANGED <<pending, trail>>
           ELSE /\ Len(pending) < MaxInflight
                /\ Truthy(maxCacheSize[w])
                      \/ Len(cacheOrder[w]) + Inflight(w) < MaxLog
                /\ pending' = Append(pending, [w |-> w, key |-> key])
                /\ last' = Op("call", w, key, NoValue)
                /\ trail' = IF pending = <<>> THEN trail ELSE Tainted
        /\ exported' = {}
        /\ UNCHANGED <<config, memory, cacheOrder, heap, now>>

\* memorizedFunction(key, ...args) up to the await: a hit returns the cached
\* value, a miss invokes fn and suspends.
memorizedFunction(w, key) ==
    LET cachedValue == getCachedResult(w, key)
    IN  /\ IF cachedValue # Undefined
           THEN /\ last' = Op("hit", w, key, cachedValue)
                /\ UNCHANGED <<pending, trail>>
           ELSE /\ Len(pending) < MaxInflight
                /\ Truthy(maxCacheSize[w])
                      \/ Len(cacheOrder[w]) + Inflight(w) < MaxLog
                /\ pending' = Append(pending, [w |-> w, key |-> key])
                /\ last' = Op("call", w, key, NoValue)
                /\ trail' = IF pending = <<>> THEN trail ELSE Tainted
        /\ exported' = {}
        /\ UNCHANGED <<config, memory, cacheOrder, heap, now>>

\* (mutant) a clearMemory or importMemory cancels the invocations in flight:
\* the continuation that follows it returns the result and stores nothing
ResumeCancelled(i, result) ==
    LET p == pending[i]
        cancelled == last.op \in {"clear", "import"} /\ last.w = p.w
    IN  /\ heap' = IF cancelled THEN heap
                   ELSE [heap EXCEPT ![memory[p.w]] = StoredObject(p.w, p.key, result)]
        /\ cacheOrder' = IF cancelled THEN cacheOrder
                         ELSE [cacheOrder EXCEPT ![p.w] = StoredOrder(p.w, p.key)]
        /\ pending' = RemoveAt(pending, i)
        /\ last' = Op("return", p.w, p.key, result)
        /\ trail' = Followed(p.w, p.key)
        /\ exported' = {}
        /\ UNCHANGED <<config, memory, now>>

\* fn resolves with `result`: storeInCache(key, result); return result
Resume(i, result) ==
    LET p == pending[i]
    IN  /\ heap' = [heap EXCEPT ![memory[p.w]] = StoredObject(p.w, p.key, result)]
        /\ cacheOrder' = [cacheOrder EXCEPT ![p.w] = StoredOrder(p.w, p.key)]
        /\ pending' = RemoveAt(pending, i)
        /\ last' = Op("return", p.w, p.key, result)
        /\ trail' = Followed(p.w, p.key)
        /\ exported' = {}
        /\ UNCHANGED <<config, memory, now>>

\* (mutant) the rejection is caught and undefined is stored before rethrowing
RejectAfterStore(i) ==
    LET p == pending[i]
    IN  /\ heap' = [heap EXCEPT ![memory[p.w]] = StoredObject(p.w, p.key, Undefined)]
        /\ cacheOrder' = [cacheOrder EXCEPT ![p.w] = StoredOrder(p.w, p.key)]
        /\ pending' = RemoveAt(pending, i)
        /\ last' = Op("throw", p.w, p.key, NoValue)
        /\ trail' = Tainted
        /\ exported' = {}
        /\ UNCHANGED <<config, memory, now>>

\* fn rejects: the await throws and memorizedFunction rejects
Reject(i) ==
    LET p == pending[i]
    IN  /\ pending' = RemoveAt(pending, i)
        /\ last' = Op("throw", p.w, p.key, NoValue)
        /\ trail' = Tainted
        /\ exported' = {}
        /\ UNCHANGED <<config, memory, cacheOrder, heap, now>>

\* exportMemory(): the caller gets the reference `memory` holds.  The caller
\* passes it to importMemory in its next operations or drops it.
exportMemory(w) ==
    /\ exported' = {[ref |-> memory[w], by |-> w, at |-> now]}
    /\ last' = Op("export", w, NoKey, NoValue)
    /\ trail' = Tainted
    /\ UNCHANGED <<config, memory, cacheOrder, heap, now, pending>>

\* (mutant) importMemory assigns nothing
NotImported(w, memoryToImport) == memory[w]

\* what importMemory(memoryToImport) leaves in `memory` of w
Imported(w, memoryToImport) == memoryToImport

\* (mutant) importMemory takes a copy of the object it is given
importExportedCopy(w) ==
    LET o == NewObj(Refs([x \in Wrappers \ {w} |-> memory[x]]))
    IN  /\ exported # {}
        /\ memory' = [memory EXCEPT ![w] = o]
        /\ \E e \in exported :
              heap' = Collect([heap EXCEPT ![o] = heap[e.ref]], Refs(memory'))
        /\ last' = Op("import", w, NoKey, NoValue)
        /\ trail' = Tainted
        /\ UNCHANGED <<config, cacheOrder, now, pending, exported>>

\* importMemory(ref) with the reference exportMemory returned
importExported(w) ==
    /\ \E e \in exported : memory' = [memory EXCEPT ![w] = Imported(w, e.ref)]
    /\ heap' = Collect(heap, Refs(memory'))
    /\ last' = Op("import", w, NoKey, NoValue)
    /\ trail' = Tainted
    /\ UNCHANGED <<config, cacheOrder, now, pending, exported>>

\* the objects a caller writes down and imports
Snapshots ==
    {[own |-> f, proto |-> {}] :
        f \in UNION {[S -> {[value |-> "v1", expiration |-> e]}] :
                        S \in {{}, {"k1"}}, e \in {Infinity, 1}}}

\* (mutant) importMemory also resets the order
importMemoryResetsOrder(w, snapshot) ==
    LET o == NewObj(Refs([x \in Wrappers \ {w} |-> memory[x]]))
    IN  /\ memory' = [memory EXCEPT ![w] = Imported(w, o)]
        /\ heap' = Collect([heap EXCEPT ![o] = snapshot], Refs(memory'))
        /\ cacheOrder' = [cacheOrder EXCEPT ![w] = <<>>]
        /\ last' = Op("import", w, NoKey, NoValue)
        /\ trail' = Tainted
        /\ exported' = {}
        /\ UNCHANGED <<config, now, pending>>

\* importMemory(snapshot) with an object the caller made
importMemory(w, snapshot) ==
    LET o == NewObj(Refs([x \in Wrappers \ {w} |-> memory[x]]))
    IN  /\ memory' = [memory EXCEPT ![w] = Imported(w, o)]
        /\ heap' = Collect([heap EXCEPT ![o] = snapshot], Refs(memory'))
        /\ last' = Op("import", w, NoKey, NoValue)
        /\ trail' = Tainted
        /\ exported' = {}
        /\ UNCHANGED <<config, cacheOrder, now, pending>>

\* (mutant) clearMemory resets the order only
UnclearedMemory(w) == Cache(w)

\* the object `memory` of w refers to after clearMemory()
ClearedMemory(w) == EmptyObject

\* (mutant) clearMemory resets the memory only
UnclearedOrder(w) == cacheOrder[w]

\* cacheOrder of w after clearMemory()
ClearedOrder(w) == <<>>

\* clearMemory()
clearMemory(w) ==
    LET o == NewObj(Refs([x \in Wrappers \ {w} |-> memory[x]]))
    IN  /\ memory' = [memory EXCEPT ![w] = o]
        /\ cacheOrder' = [cacheOrder EXCEPT ![w] = ClearedOrder(w)]
        /\ heap' = Collect([heap EXCEPT ![o] = ClearedMemory(w)], Refs(memory'))
        /\ last' = Op("clear", w, NoKey, NoValue)
        /\ trail' = Tainted
        /\ exported' = {}
        /\ UNCHANGED <<config, now, pending>>

\* the clock advances
Tick ==
    /\ now < MaxTime
    /\ now' = now + 1
    /\ UNCHANGED <<config, memory, cacheOrder, heap, pending, exported, last, trail>>

\* -------------------------------------------------------- specifications
\* One wrapper; invocations may overlap each other and the control functions.
Next ==
    \/ \E w \in instances, k \in callerKeys : memorizedFunction(w, k)
    \/ \E i \in 1..Len(pending), r \in Results : Resume(i, r)
    \/ \E i \in 1..Len(pending) : Reject(i)
    \/ \E w \in instances : exportMemory(w)
    \/ \E w \in instances : importExported(w)
    \/ \E w \in instances, s \in Snapshots : importMemory(w, s)
    \/ \E w \in instances : clearMemory(w)
    \/ Tick

\* The options 0 count as options not supplied (see Truthy); the wrapper of
\* this specification is constructed with options that are absent or positive.
ConcurrentInit == Init /\ ttl["A"] # 0 /\ maxCacheSize["A"] # 0

Spec == ConcurrentInit /\ [][Next]_vars

\* One wrapper and a caller that awaits every call before its next operation.
SeqNext ==
    \/ pending = <<>> /\ \E w \in instances, k \in callerKeys : memorizedFunction(w, k)
    \/ pending # <<>> /\ \E r \in Results : Resume(1, r)
    \/ pending # <<>> /\ Reject(1)
    \/ pending = <<>> /\ \E w \in instances : exportMemory(w)
    \/ pending = <<>> /\ \E w \in instances : importExported(w)
    \/ pending = <<>> /\ \E w \in instances, s \in Snapshots : importMemory(w, s)
    \/ pending = <<>> /\ \E w \in instances : clearMemory(w)
    \/ Tick

SeqSpec == Init /\ [][SeqNext]_vars

\* The same caller, with all the keys, on a wrapper without ttl.
EvictInit == withMemorized({"A"}) /\ callerKeys = Keys /\ ttl["A"] = Absent

EvictSpec == EvictInit /\ [][SeqNext]_vars

\* Two wrappers around the same function, constructed with the same options,
\* with a maximum cache size; fn resolves to defined values; the caller awaits
\* every call and imports only what it exported.
PairInit ==
    /\ withMemorized(Wrappers)
    /\ callerKeys \in KeyPairs
    /\ ttl["A"] \in {Absent, 1} /\ ttl["B"] = ttl["A"]
    /\ maxCacheSize["A"] = 1 /\ maxCacheSize["B"] = 1

PairNext ==
    \/ pending = <<>> /\ \E w \in instances, k \in callerKeys : memorizedFunction(w, k)
    \/ pending # <<>> /\ \E r \in Results \ {Undefined} : Resume(1, r)
    \/ pending = <<>> /\ \E w \in instances : exportMemory(w)
    \/ pending = <<>> /\ \E w \in instances : importExported(w)
    \/ pending = <<>> /\ \E w \in instances : clearMemory(w)
    \/ Tick

PairSpec == PairInit /\ [][PairNext]_vars

\* One wrapper on which importMemory is never called; invocations may overlap
\* each other, exportMemory and clearMemory.
NoImportNext ==
    \/ \E w \in instances, k \in callerKeys : memorizedFunction(w, k)
    \/ \E i \in 1..Len(pending), r \in Results : Resume(i, r)
    \/ \E i \in 1..Len(pending) : Reject(i)
    \/ \E w \in instances : exportMemory(w)
    \/ \E w \in instances : clearMemory(w)
    \/ Tick

NoImportSpec == Init /\ [][NoImportNext]_vars

\* ------------------------------------------------------------ properties
\* The step is an invocation of the memorized function (its synchronous part):
\* last' then records the wrapper, the key and whether it was a hit.
InvokeStep == now' = now /\ last'.op \in {"hit", "call"}

\* The step is the continuation of an invocation after fn resolved.
ResumeStep == last'.op = "return" /\ Len(pending') = Len(pending) - 1

\* The step is the continuation of an invocation after fn rejected.
RejectStep == last'.op = "throw" /\ Len(pending') = Len(pending) - 1

\* The invocation of this step follows, with nothing but time in between, a
\* completed invocation of the same wrapper and key that invoked fn.
SecondCall ==
    /\ last.op = "return"
    /\ InvokeStep
    /\ last'.w = last.w
    /\ last'.key = last.key

\* C1: with a ttl t > 0 and any maxCacheSize, when an invocation of key k that
\* invoked fn and returned a value other than undefined is followed less than t
\* milliseconds later by another invocation of k, the second one is a hit: fn
\* is not invoked again and the same value is returned.  (The time of the first
\* call is taken as the time it returned, the latest the claim allows.)
C1_SecondCallWithinTtlHits ==
    [][ (/\ SecondCall
         /\ last.value # Undefined
         /\ ttl[last.w] > 0
         /\ now - last.at < ttl[last.w])
        => (last'.op = "hit" /\ last'.value = last.value) ]_vars

\* C2: with a ttl t > 0, when more than t milliseconds have passed since an
\* invocation of k stored its entry, the next invocation of k is a miss that
\* invokes fn again, and when fn resolves the Cache holds a fresh entry for k
\* whose expiration is the time of that store plus t.
C2_RecomputesAfterTtl ==
    [][ /\ (/\ SecondCall
            /\ ttl[last.w] > 0
            /\ now - last.at > ttl[last.w])
           => last'.op = "call"
        /\ (/\ ResumeStep
            /\ last.op = "call" /\ last.after = "return"
            /\ last'.w = last.w /\ last'.key = last.key
            /\ ttl[last.w] > 0
            /\ last.key \in Held(Cache(last.w))
            /\ EntryOf(Cache(last.w), last.key).expiration # Infinity
            /\ last.at > EntryOf(Cache(last.w), last.key).expiration)
           => /\ last.key \in Held(heap'[memory'[last.w]])
              /\ EntryOf(heap'[memory'[last.w]], last.key).expiration = now + ttl[last.w]
      ]_vars

\* The wrapper A, constructed with maxCacheSize = N >= 1, has so far only made
\* successive invocations that stored N + 1 distinct keys, trail[1] first.
StoredOneTooMany ==
    /\ maxCacheSize["A"] >= 1
    /\ ttl["A"] = Absent
    /\ trail # Tainted
    /\ Len(trail) = maxCacheSize["A"] + 1

\* C3: after the invocations of N + 1 distinct keys on a fresh wrapper with
\* maxCacheSize = N and no ttl, the keys after the first are all still cached,
\* an invocation of the last key is a hit (when fn resolved to a value other
\* than undefined for it, see C16), and an invocation of the first key is a
\* miss that invokes fn again, because the first key was evicted.
C3_OldestEvicted ==
    [][ (StoredOneTooMany /\ InvokeStep /\ last'.w = "A")
        => /\ \A i \in 2..Len(trail) : trail[i] \in Held(Cache("A"))
           /\ (/\ last'.key = trail[Len(trail)]
               /\ EntryOf(Cache("A"), last'.key).value # Undefined)
              => (last'.op = "hit" /\ last'.value = EntryOf(Cache("A"), last'.key).value)
           /\ last'.key = trail[1] => last'.op = "call" ]_vars

\* C4: a wrapper constructed with maxCacheSize = N >= 1 never holds more than
\* N entries in its Cache.
C4_CacheWithinMax ==
    \A w \in instances :
        maxCacheSize[w] >= 1 => Cardinality(Held(Cache(w))) <= maxCacheSize[w]

\* The invocation of this step is made on a wrapper that has stored nothing
\* yet and has just imported the reference e, exported by another wrapper.
AfterImportOf(e) ==
    /\ last.op = "import"
    /\ e.by # last.w
    /\ cacheOrder[last.w] = <<>>
    /\ InvokeStep
    /\ last'.w = last.w
    /\ last'.key \in Held(heap[e.ref])

\* C5 as stated: when wrapper B has imported what wrapper A exported, an
\* invocation on B of a key whose entry was not expired at the time of the
\* export is a hit that returns the value A stored.
C5_AsStated ==
    [][ \A e \in exported :
          (/\ AfterImportOf(e)
           /\ GreaterThan(EntryOf(heap[e.ref], last'.key).expiration, e.at))
          => (last'.op = "hit" /\ last'.value = EntryOf(heap[e.ref], last'.key).value) ]_vars

\* C5, amended: the same for a key whose entry is not expired at the time of
\* the invocation on B and whose value is not undefined.
C5_ImportedEntryHits ==
    [][ \A e \in exported :
          (/\ AfterImportOf(e)
           /\ GreaterThan(EntryOf(heap[e.ref], last'.key).expiration, now)
           /\ EntryOf(heap[e.ref], last'.key).value # Undefined)
          => (last'.op = "hit" /\ last'.value = EntryOf(heap[e.ref], last'.key).value) ]_vars

\* Wrapper B, which never stored anything, has served from the Cache it
\* imported a key that wrapper A stored.
C5_Witness ==
    /\ last.op = "hit" /\ last.after = "import" /\ last.w = "B"
    /\ cacheOrder["B"] = <<>>
    /\ memory["B"] = memory["A"]
    /\ \E i \in 1..Len(cacheOrder["A"]) : cacheOrder["A"][i] = last.key
    /\ last.value = EntryOf(Cache("A"), last.key).value

\* C6: the first invocation after clearMemory() is a miss that invokes fn,
\* whatever the key, the ttl and the maxCacheSize.
C6_MissAfterClear ==
    [][ (last.op = "clear" /\ InvokeStep /\ last'.w = last.w)
        => last'.op = "call" ]_vars

\* fn is being recomputed by the first invocation after a clearMemory().
C6_Witness ==
    /\ last.op = "call" /\ last.after = "clear"
    /\ Cache(last.w) = EmptyObject
    /\ cacheOrder[last.w] = <<>>

\* C7: when fn fails, the Cache and the order log are as they were before.
C7_FailureStoresNothing ==
    [][ RejectStep
        => (heap' = heap /\ memory' = memory /\ cacheOrder' = cacheOrder) ]_vars

\* fn has failed for a key whose expired entry is still in the Cache.
C7_Witness ==
    /\ last.op = "throw"
    /\ last.key \in Held(Cache(last.w))
    /\ ~GreaterThan(EntryOf(Cache(last.w), last.key).expiration, last.at)
    /\ cacheOrder[last.w] # <<>>

\* C8: an invocation of a key whose entry has an expiration greater than the
\* current time and a value other than undefined is a hit: fn is not invoked
\* and the Cache and the order log stay as they are.
C8_HitChangesNothing ==
    [][ (/\ InvokeStep
         /\ last'.key \in Held(Cache(last'.w))
         /\ GreaterThan(EntryOf(Cache(last'.w), last'.key).expiration, now)
         /\ EntryOf(Cache(last'.w), last'.key).value # Undefined)
        => /\ last'.op = "hit"
           /\ last'.value = EntryOf(Cache(last'.w), last'.key).value
           /\ pending' = pending
           /\ heap' = heap /\ memory' = memory /\ cacheOrder' = cacheOrder ]_vars

\* A key was served from the cache and is still the oldest of the order log,
\* ahead of a key stored after it.
C8_Witness ==
    /\ last.op = "hit"
    /\ Len(cacheOrder[last.w]) = 2
    /\ cacheOrder[last.w][1] = last.key
    /\ cacheOrder[last.w][2] # last.key

\* C9: with maxCacheSize = N >= 1 a store removes an entry exactly when the
\* Cache holds more than N entries after the insertion; without maxCacheSize
\* no store removes an entry.
C9_EvictsWhenEntriesExceed ==
    [][ ResumeStep
        => LET w == last'.w
               inserted == (Held(Cache(w))) \cup {last'.key}
               removed == inserted \ Held(heap'[memory'[w]])
           IN  /\ maxCacheSize[w] >= 1
                    => (removed # {} <=> Cardinality(inserted) > maxCacheSize[w])
               /\ maxCacheSize[w] = Absent => removed = {} ]_vars

\* C10: when two invocations of the same uncached key were both waiting for fn
\* and have both completed, each has appended the key to the order log and the
\* Cache entry of the key holds the value of the one that completed last.
C10_LastCompletionWins ==
    [][ (/\ ResumeStep
         /\ last.op = "return"
         /\ last'.w = last.w /\ last'.key = last.key)
        => /\ cacheOrder'[last.w] # <<>>
           /\ cacheOrder'[last.w][Len(cacheOrder'[last.w])] = last.key
           /\ last.key \in Held(heap'[memory'[last.w]])
           /\ EntryOf(heap'[memory'[last.w]], last.key).value = last'.value ]_vars

\* C11: an invocation that awaits fn when clearMemory or importMemory is called
\* is not cancelled.  Its continuation stores into the object `memory` refers
\* to at that time and appends its key to the order log of that time: right
\* after a clearMemory the Cache then holds exactly the stored entry and the
\* log exactly its key, right after an importMemory the entry is written into
\* the imported object (and removed again only when its key is the front of a
\* full log); and the invocation of that key that follows the store after the
\* clear, before the entry expires, is a hit when the value is not undefined.
C11_InflightStoreSurvivesClear ==
    [][ LET w == last'.w
            key == last'.key
            pushed == Append(cacheOrder[w], key)
            stored == heap'[memory[w]]
        IN  /\ (ResumeStep /\ last.op = "clear" /\ last.w = w)
               => /\ memory' = memory
                  /\ Held(stored) = {key}
                  /\ EntryOf(stored, key) =
                        [value |-> last'.value, expiration |-> Expiration(w)]
                  /\ cacheOrder'[w] = <<key>>
            /\ (ResumeStep /\ last.op = "import" /\ last.w = w)
               => /\ memory' = memory
                  /\ cacheOrder'[w] \in {pushed, Shift(pushed)}
                  /\ \A k \in Keys \ {key, Head(pushed)} :
                        k \in Held(stored) <=> k \in Held(Cache(w))
                  /\ IF key \in Held(stored)
                     THEN EntryOf(stored, key).value = last'.value
                     ELSE Head(pushed) = key /\ cacheOrder'[w] = Shift(pushed)
            /\ (/\ last.op = "return" /\ last.after = "clear"
                /\ InvokeStep
                /\ w = last.w /\ key = last.key
                /\ last.value # Undefined
                /\ Truthy(ttl[w]) => now < last.at + ttl[w])
               => (last'.op = "hit" /\ last'.value = last.value) ]_vars

\* clearMemory() was called while an invocation awaited fn; fn has resolved and
\* no invocation was started since: the Cache is not empty and the key would
\* be served from it.
C11_Witness ==
    /\ last.op = "return" /\ last.after = "clear"
    /\ pending = <<>>
    /\ Cache(last.w) # EmptyObject
    /\ cacheOrder[last.w] = <<last.key>>
    /\ last.value # Undefined
    /\ getCachedResult(last.w, last.key) = last.value

\* C12: every store appends the stored key to the end of the order log, also
\* when the key is already in it.  A store removes at most one key: when it
\* evicts, the key that was at the front of the log leaves the log and has no
\* entry in the Cache afterwards, also when it occurs again later in the log and
\* also when it is the key just stored; every other entry stays as it was.
C12_AppendsAndEvictsFront ==
    [][ ResumeStep
        => LET w == last'.w
               key == last'.key
               pushed == Append(cacheOrder[w], key)
               front == cacheOrder[w][1]
               stored == heap'[memory'[w]]
               entry == [value |-> last'.value, expiration |-> Expiration(w)]
           IN  \/ /\ cacheOrder'[w] = pushed
                  /\ Held(stored) = Held(Cache(w)) \cup {key}
                  /\ EntryOf(stored, key) = entry
                  /\ \A k \in Held(Cache(w)) \ {key} :
                        EntryOf(stored, k) = EntryOf(Cache(w), k)
               \/ /\ cacheOrder'[w] = Shift(pushed)
                  /\ cacheOrder'[w] # <<>>
                  /\ cacheOrder'[w][Len(cacheOrder'[w])] = key
                  /\ front \notin Held(stored)
                  /\ Held(stored) = (Held(Cache(w)) \cup {key}) \ {front}
                  /\ key # front => EntryOf(stored, key) = entry
                  /\ \A k \in Held(Cache(w)) \ {key, front} :
                        EntryOf(stored, k) = EntryOf(Cache(w), k) ]_vars

\* C13: with a ttl >= 0 in the options every newly stored entry has the
\* expiration (time of the store) + ttl; without ttl it has the expiration
\* that never passes.
C13_TtlPolicy ==
    [][ (ResumeStep /\ last'.key \in Held(heap'[memory'[last'.w]]))
        => LET w == last'.w
               entry == EntryOf(heap'[memory'[w]], last'.key)
           IN  /\ ttl[w] >= 0 => entry.expiration = now + ttl[w]
               /\ ttl[w] = Absent => entry.expiration = Infinity ]_vars

\* C14: an invocation is a hit only if the entry of its key has an expiration
\* strictly greater than the current time; when the expiration equals the
\* current time or is smaller, it is a miss and fn is invoked.  Expiration is
\* lazy: an expired entry stays in the Cache, and the Cache changes only when
\* fn resolves and its result is stored, on clearMemory and on importMemory.
C14_StrictLazyExpiration ==
    [][ /\ InvokeStep
           => LET w == last'.w
                  key == last'.key
              IN  /\ last'.op = "hit"
                       => /\ key \in Held(Cache(w))
                          /\ \/ EntryOf(Cache(w), key).expiration = Infinity
                             \/ EntryOf(Cache(w), key).expiration > now
                  /\ (/\ key \in Held(Cache(w))
                      /\ EntryOf(Cache(w), key).expiration # Infinity
                      /\ EntryOf(Cache(w), key).expiration <= now)
                     => (last'.op = "call" /\ Len(pending') = Len(pending) + 1)
        /\ (heap' # heap \/ memory' # memory)
           => (now' = now /\ last'.op \in {"return", "clear", "import"}) ]_vars

\* fn is being recomputed for a key whose entry, with a value that is not
\* undefined, is in the Cache with an expiration equal to the current time.
C14_Witness ==
    /\ last.op = "call"
    /\ last.at = now
    /\ last.key \in Held(Cache(last.w))
    /\ EntryOf(Cache(last.w), last.key).expiration = now
    /\ EntryOf(Cache(last.w), last.key).value # Undefined

\* The step is an importMemory.
ImportStep == now' = now /\ last'.op = "import"

\* importMemory makes `memory` of the wrapper the imported object, as it is,
\* and leaves the order log as it was.
ImportReplacesCacheOnly ==
    ImportStep
    => LET w == last'.w
           new == heap'[memory'[w]]
       IN  /\ cacheOrder' = cacheOrder
           /\ \/ new \in Snapshots
              \/ \E e \in exported : memory'[w] = e.ref /\ new = heap[e.ref]

\* The step stores a result in the object the wrapper imported, the first
\* store since the importMemory.
FirstStoreAfterImport ==
    /\ ResumeStep
    /\ last.w = last'.w
    /\ last.op = "import" \/ (last.op = "call" /\ last.after = "import")

\* the keys of the order log of w
Logged(w) == {cacheOrder[w][i] : i \in 1..Len(cacheOrder[w])}

\* C15 as stated: importMemory replaces the whole Cache by the snapshot and
\* leaves the order log unchanged; the imported keys are absent from the log,
\* and none of them is evicted before it is stored again.
C15_AsStated ==
    [][ /\ ImportReplacesCacheOnly
        /\ ImportStep
           => (Held(heap'[memory'[last'.w]])) \cap Logged(last'.w) = {}
        /\ FirstStoreAfterImport
           => \A k \in (Held(Cache(last'.w))) \ {last'.key} :
                 k \in Held(heap'[memory'[last'.w]]) ]_vars

\* C15, amended: importMemory replaces the whole Cache by the snapshot and
\* leaves the order log unchanged; an imported key that is absent from the
\* log is not evicted before it is stored again, and an imported key that the
\* log holds from a store before the import is evicted as any logged key is.
C15_ImportLeavesOrder ==
    [][ /\ ImportReplacesCacheOnly
        /\ FirstStoreAfterImport
           => \A k \in (Held(Cache(last'.w))) \ {last'.key} :
                 \/ k \in Held(heap'[memory'[last'.w]])
                 \/ cacheOrder[last'.w] # <<>> /\ k = cacheOrder[last'.w][1] ]_vars

\* With maxCacheSize = 1, importMemory was called while an invocation awaited
\* fn; its store evicted the front of the log, the key just stored, and the
\* imported key, which the log does not hold, is still in the Cache.
C15_Witness ==
    /\ last.op = "return" /\ last.after = "import"
    /\ maxCacheSize[last.w] = 1
    /\ cacheOrder[last.w] = <<last.key>>
    /\ last.key \notin Held(Cache(last.w))
    /\ Cache(last.w) # EmptyObject

\* C16: an invocation of a key whose entry holds the value undefined is a miss
\* that invokes fn again, also when the entry is not expired; and when fn
\* resolves to undefined the key is still appended to the order log and an
\* entry with the value undefined is still stored (and is removed again only
\* by the eviction that this very store triggers).
C16_UndefinedAlwaysMisses ==
    [][ /\ (/\ InvokeStep
            /\ last'.key \in Held(Cache(last'.w))
            /\ EntryOf(Cache(last'.w), last'.key).value = Undefined)
           => (last'.op = "call" /\ Len(pending') = Len(pending) + 1)
        /\ (ResumeStep /\ last'.value = Undefined)
           => LET w == last'.w
                  key == last'.key
                  pushed == Append(cacheOrder[w], key)
                  stored == heap'[memory'[w]]
              IN  /\ cacheOrder'[w] \in {pushed, Shift(pushed)}
                  /\ cacheOrder'[w] # <<>>
                  /\ cacheOrder'[w][Len(cacheOrder'[w])] = key
                  /\ IF key \in Held(stored)
                     THEN EntryOf(stored, key) = [value |-> Undefined,
                                         expiration |-> Expiration(w)]
                     ELSE cacheOrder[w][1] = key /\ cacheOrder'[w] = Shift(pushed)
      ]_vars

\* fn resolved to undefined twice for a key and is invoked a third time,
\* although the entry of the key is in the Cache and not expired.
C16_Witness ==
    /\ last.op = "call" /\ last.after = "return"
    /\ cacheOrder[last.w] = <<last.key, last.key>>
    /\ last.key \in Held(Cache(last.w))
    /\ EntryOf(Cache(last.w), last.key).value = Undefined
    /\ GreaterThan(EntryOf(Cache(last.w), last.key).expiration, now)

\* The step is a clearMemory.
ClearStep == now' = now /\ last'.op = "clear"

\* C17: clearMemory() leaves the Cache and the order log of its wrapper empty,
\* whatever they were; a second clearMemory() right after changes nothing; and
\* eviction accounting restarts from zero: with maxCacheSize = N >= 1 the first
\* store after a clear evicts nothing, and no store evicts while the log holds
\* fewer than N keys, so that the N stores after a clear all fit.
C17_ClearResetsBoth ==
    [][ LET w == last'.w
            key == last'.key
        IN  /\ ClearStep
               => /\ heap'[memory'[w]] = EmptyObject
                  /\ cacheOrder'[w] = <<>>
            /\ (ClearStep /\ last.op = "clear" /\ last.w = w)
               => /\ heap' = heap /\ memory' = memory /\ cacheOrder' = cacheOrder
                  /\ pending' = pending
            /\ (/\ ResumeStep
                /\ maxCacheSize[w] >= 1
                /\ last.w = w
                /\ last.op = "clear" \/ (last.op = "call" /\ last.after = "clear"))
               => /\ cacheOrder'[w] = <<key>>
                  /\ Held(heap'[memory'[w]]) = {key}
            /\ (/\ ResumeStep
                /\ maxCacheSize[w] >= 1
                /\ Len(cacheOrder[w]) < maxCacheSize[w])
               => /\ cacheOrder'[w] = Append(cacheOrder[w], key)
                  /\ Held(heap'[memory'[w]]) = (Held(Cache(w))) \cup {key} ]_vars

\* clearMemory() was called right after a store, which had left the order log
\* not empty: the Cache and the log are empty.
C17_Witness ==
    /\ last.op = "clear" /\ last.after = "return"
    /\ Cache(last.w) = EmptyObject
    /\ cacheOrder[last.w] = <<>>

\* the other wrapper
Other(w) == CHOOSE o \in Wrappers : o # w

\* C18: two wrappers share state only through export and import, and then by
\* reference.  Their Caches become one object only by an importMemory, and
\* when a wrapper imports what the other exported both hold the same object;
\* while they do, a lookup on one wrapper is answered from the entries the
\* other stored, overwrote or evicted; they stop sharing only when one of them
\* calls clearMemory or importMemory, which rebinds that wrapper only; and no
\* operation of a wrapper changes the order log of the other.
C18_SharedByReference ==
    [][ LET w == last'.w
            o == Other(last'.w)
            shared == memory[w] = memory[o]
        IN  /\ (~shared /\ memory'[w] = memory'[o]) => ImportStep
            /\ ImportStep
               => \A e \in exported :
                     /\ memory'[w] = e.ref
                     /\ e.by # w => memory'[w] = memory'[e.by]
            /\ (shared /\ memory'[w] # memory'[o])
               => (ClearStep \/ ImportStep)
            /\ (ClearStep \/ ImportStep)
               => (memory'[o] = memory[o] /\ heap'[memory'[o]] = Cache(o))
            /\ (ResumeStep /\ ~shared) => heap'[memory'[o]] = Cache(o)
            /\ (ResumeStep /\ shared)
               => /\ memory' = memory
                  /\ heap'[memory'[o]] = heap'[memory'[w]]
                  /\ last'.key \in Held(heap'[memory'[o]])
                        => EntryOf(heap'[memory'[o]], last'.key).value = last'.value
            /\ (/\ shared
                /\ InvokeStep
                /\ last.op = "return" /\ last.w = o /\ last.key = last'.key)
               => IF /\ last.key \in Held(Cache(o))
                     /\ last.value # Undefined
                     /\ Truthy(ttl[o]) => now < last.at + ttl[o]
                  THEN last'.op = "hit" /\ last'.value = last.value
                  ELSE last'.op = "call"
            /\ (now' = now /\ last'.op # "init") => cacheOrder'[o] = cacheOrder[o]
      ]_vars

\* Wrapper B, which holds the Cache object of wrapper A and has stored
\* nothing, has served the key that A stored just before.
C18_Witness ==
    /\ last.op = "hit" /\ last.after = "return" /\ last.w = "B"
    /\ memory["B"] = memory["A"]
    /\ cacheOrder["B"] = <<>>
    /\ cacheOrder["A"] = <<last.key>>

\* C19: on a wrapper on which importMemory is never called, every key of the
\* Cache occurs in the order log.
C19_CachedKeysAreLogged ==
    \A w \in instances : (Held(Cache(w))) \subseteq Logged(w)

\* C20: with maxCacheSize = N >= 1 the order log never holds more than N keys,
\* whatever the interleaving of invocations, imports and clears.
C20_OrderWithinMax ==
    \A w \in instances :
        maxCacheSize[w] >= 1 => Len(cacheOrder[w]) <= maxCacheSize[w]

\* With maxCacheSize = 1, after an importMemory and a store, the log holds the
\* one key it may hold while the Cache holds two entries.
C20_Witness ==
    /\ last.op = "return"
    /\ maxCacheSize[last.w] = 1
    /\ cacheOrder[last.w] = <<last.key>>
    /\ last.key \in Held(Cache(last.w))
    /\ Cardinality(Held(Cache(last.w))) = 2

====
